---------------------------- MODULE Spec2Model ----------------------------
(***************************************************************************)
(* Model of the React hook useGoldHistory (src/src/hooks/useGoldHistory.ts) *)
(* and of its one operation, fetchAndSyncHistory(fromDate, toDate): read    *)
(* the Firestore cache for the date range, validate it, refill it from the  *)
(* /api/sjc/formatted provider when it is empty or suspect, publish the     *)
(* series with setData and write the fresh series back in one batch.        *)
(*                                                                         *)
(* Encoding of the values the code handles as strings:                      *)
(*   - an ISO-8601 timestamp "yyyy-MM-ddTHH:mm:ss.SSSZ" is the tuple        *)
(*     <<day, second-of-day, millisecond>>; Firestore's string comparison   *)
(*     of two such strings is the lexicographic comparison of the tuples;   *)
(*   - a caller's "dd/MM/yyyy" string is <<day>>, the day it denotes, and   *)
(*     any other string is Malformed;                                       *)
(*   - a document identifier `${type}_${yyyyMMdd_HHmmss}` is the tuple      *)
(*     <<type, day, second>>.                                               *)
(* The clock runs in UTC, so that format()'s local fields are those of      *)
(* the ISO string.                                                          *)
(***************************************************************************)
EXTENDS Integers, Sequences, FiniteSets

\* ------------------------------------------------------------------ bounds
\* Invocations of fetchAndSyncHistory on one hook instance (they may overlap).
MaxInv == 2
\* Longest array the provider returns.
MaxItems == 2
\* Calendar days are 0..MaxDay.
MaxDay == 1
\* Last second of a day (23:59:59 in the code).
LastSec == 1
\* Last millisecond of a second (.999 in the code).
LastMs == 1

\* ------------------------------------------------------ program constants
\* '@/lib/constants' is not among the sources; the value is the one the
\* specification's example scenario gives.
MAX_VALID_GOLD_PRICE == 200000000

Inv == 1..MaxInv
Days == 0..MaxDay
Secs == 0..LastSec
Millis == 0..LastMs

\* What `new Date(s)` / parse() give for a string that is no date.
InvalidDate == <<>>
\* A caller's date string: <<day>> when it matches dd/MM/yyyy, and
\* Malformed otherwise.
Malformed == <<>>
DateStrings == {<<d>> : d \in Days} \cup {Malformed}
\* The ranges the caller asks for start on day 0 (or with a malformed string).
FromStrings == {<<0>>, Malformed}

Types == {"bar", "ring"}
Prices == {MAX_VALID_GOLD_PRICE, MAX_VALID_GOLD_PRICE + 1}
IsoDates == Days \X Secs \X Millis

\* HistoryItem: the record shape of the provider's array and of setData.
HistoryItem(d, t, b, s) == [date |-> d, type |-> t, buy |-> b, sell |-> s]

\* ------------------------------------------------------------- the state
VARIABLES
    store,       \* collection gold_price_history: document id -> document
    data,        \* useState data (historyData)
    loading,     \* useState loading
    now,         \* the clock new Date() reads
    pc,          \* per invocation: where it is suspended
    outcome,     \* per invocation: the branch it ended in
    args,        \* per invocation: <<fromDate, toDate>>
    cachedData,  \* per invocation: the series of its cache read
    items,       \* per invocation: json.data once accepted
    batch,       \* per invocation: the writes staged in its WriteBatch
    io,          \* per invocation: how each awaited operation settled
    calls,       \* per invocation: fetch() calls issued
    commits,     \* per invocation: batch.commit() calls issued
    published,   \* per invocation: the values it passed to setData, in order
    pre,         \* per invocation: data when it started
    disturbed,   \* per invocation: another invocation called setData since it started
    idsAfter,    \* per invocation: the document ids of the store after its commit
    rejected,    \* per invocation: its promise rejected (an error reached the caller)
    prior,       \* per invocation: the invocations that had ended when it started
    lastCommit   \* the invocation whose batch commit the store took last (0: none)

vars == <<store, data, loading, now, pc, outcome, args, cachedData, items, batch,
          io, calls, commits, published, pre, disturbed, idsAfter, rejected,
          prior, lastCommit>>

\* ------------------------------------------------------- pure functions
\* Firestore's comparison of two ISO strings (where("date", "<=", ...)).
IsoLe(a, b) ==
    \/ a[1] < b[1]
    \/ a[1] = b[1] /\ a[2] < b[2]
    \/ a[1] = b[1] /\ a[2] = b[2] /\ a[3] <= b[3]

\* date-fns parse(s, 'dd/MM/yyyy', new Date()): local midnight of the day, or
\* Invalid Date when the string does not match.
parse(s) == IF s = Malformed THEN InvalidDate ELSE <<s[1], 0, 0>>

startOfDay(d) == IF d = InvalidDate THEN InvalidDate ELSE <<d[1], 0, 0>>

endOfDay(d) == IF d = InvalidDate THEN InvalidDate ELSE <<d[1], LastSec, LastMs>>

\* Date.prototype.toISOString throws RangeError on an Invalid Date.
toISOStringThrows(d) == d = InvalidDate

\* format(dateObj, 'yyyyMMdd_HHmmss'): the milliseconds are dropped.
format(d) == <<d[1], d[2]>>

\* format() throws RangeError("Invalid time value") on an Invalid Date.
formatThrows(d) == d = InvalidDate

\* `${item.type}_${dateKey}`
docId(item) == <<item.type>> \o format(item.date)


\* ------------------------------------------------------ the document store
\* A document of gold_price_history: the item, tagged at persistence time.
Document(item, at) ==
    [date |-> item.date, type |-> item.type, buy |-> item.buy,
     sell |-> item.sell, provider |-> "SJC", syncedAt |-> at]

\* Firestore's order of document names: "bar_..." before "ring_...".
TypeRank(t) == IF t = "bar" THEN 0 ELSE 1

\* orderBy("date", "asc"); documents of one date follow in document-name order.
DocBefore(st, a, b) ==
    \/ st[a].date # st[b].date /\ IsoLe(st[a].date, st[b].date)
    \/ st[a].date = st[b].date /\ TypeRank(a[1]) <= TypeRank(b[1])

RECURSIVE Ordered(_, _)
Ordered(st, ids) ==
    IF ids = {} THEN <<>>
    ELSE LET first == CHOOSE a \in ids : \A b \in ids : DocBefore(st, a, b)
         IN  <<st[first]>> \o Ordered(st, ids \ {first})

\* getDocs(query(collection, where date >= lo, where date <= hi, orderBy date)):
\* snapshot.docs.map(doc => doc.data()).
getDocs(st, lo, hi) ==
    Ordered(st, {id \in DOMAIN st : IsoLe(lo, st[id].date) /\ IsoLe(st[id].date, hi)})

\* Mutant of hasOutliers: >= for >.
hasOutliersAtThreshold(series) ==
    \E k \in 1..Len(series) :
        \/ series[k].buy >= MAX_VALID_GOLD_PRICE
        \/ series[k].sell >= MAX_VALID_GOLD_PRICE

\* Mutant of hasOutliers: every() for some().
hasOutliersEvery(series) ==
    \A k \in 1..Len(series) :
        \/ series[k].buy > MAX_VALID_GOLD_PRICE
        \/ series[k].sell > MAX_VALID_GOLD_PRICE

\* cachedData.some(item => item.buy > MAX || item.sell > MAX)
hasOutliers(series) ==
    \E k \in 1..Len(series) :
        \/ series[k].buy > MAX_VALID_GOLD_PRICE
        \/ series[k].sell > MAX_VALID_GOLD_PRICE

\* items.forEach(item => batch.set(doc(db, coll, docId), {...item, provider,
\* syncedAt})): the staged writes, a later set of one document replacing an
\* earlier one. The loop stops at the first record whose format() throws;
\* the writes staged before it stay in the WriteBatch.
RECURSIVE stage(_, _, _)
stage(series, at, staged) ==
    IF series = <<>> THEN staged
    ELSE IF formatThrows(Head(series).date) THEN staged
    ELSE LET item == Head(series)
             id == docId(item)
             rest == [x \in (DOMAIN staged) \cup {id} |->
                        IF x = id THEN Document(item, at) ELSE staged[x]]
         IN  stage(Tail(series), at, rest)

\* forEach throws when new Date(item.date) is invalid (format's RangeError).
stageThrows(series) == \E k \in 1..Len(series) : formatThrows(series[k].date)

\* Mutant of commit: a document that exists already is kept as it is.
commitKeepsExisting(st, staged) ==
    [x \in (DOMAIN st) \cup (DOMAIN staged) |->
        IF x \in DOMAIN st THEN st[x] ELSE staged[x]]

\* batch.commit() that succeeds: every staged document is set, whole.
commit(st, staged) ==
    [x \in (DOMAIN st) \cup (DOMAIN staged) |->
        IF x \in DOMAIN staged THEN staged[x] ELSE st[x]]

EmptyStore == [x \in {} |-> 0]

\* Mutant of cacheHit: the `!snapshot.empty` test is left out.
cacheHitWhenEmpty(series) == ~hasOutliers(series)

\* Lines 35-47: the cache is served when the snapshot is not empty and the
\* series has no outlier (and `cachedData.length > 0`, which then holds).
cacheHit(series) == series # <<>> /\ ~hasOutliers(series) /\ Len(series) > 0

\* Mutant of accepted: the success flag is not looked at.
acceptedAnyArray(json) == json.isArray

\* Line 62: `if (!json.success || !Array.isArray(json.data)) return;`
accepted(json) == json.success /\ json.isArray

\* Mutant of shouldSync: the batch is committed whatever the length.
shouldSyncAlways(series) == TRUE

\* Line 68: `if (items.length > 0)`
shouldSync(series) == Len(series) > 0

\* Mutant of writeBatch: each record is added under a fresh identifier (the
\* sync time and its place in the array) instead of its own.
writeBatchFreshIds(series) ==
    [id \in {<<series[k].type, now, k>> : k \in 1..Len(series)} |->
        Document(series[CHOOSE k \in 1..Len(series) : id = <<series[k].type, now, k>>], now)]

\* Lines 69-85: the WriteBatch staged from the fresh series at the time of
\* the sync.
writeBatch(series) == stage(series, now, EmptyStore)

\* ------------------------------------------------------------ the inputs
\* The records the provider may return: a reference quotation and the
\* records that differ from it in one field (another type, another day, a
\* date that is no date, a sell or a buy above the threshold).
Reference == HistoryItem(<<0, 0, 0>>, "bar", MAX_VALID_GOLD_PRICE, MAX_VALID_GOLD_PRICE)

Items ==
    {Reference,
     [Reference EXCEPT !.type = "ring"],
     [Reference EXCEPT !.date = <<MaxDay, 0, 0>>],
     [Reference EXCEPT !.date = InvalidDate],
     [Reference EXCEPT !.sell = MAX_VALID_GOLD_PRICE + 1],
     [Reference EXCEPT !.buy = MAX_VALID_GOLD_PRICE + 1]}

\* json.data when it is an array.
Arrays == UNION {[1..n -> Items] : n \in 0..MaxItems}

\* The body of a 2xx response, { success, data }: data is an array, or is
\* not (isArray false, and data is then left out of the model).
Envelopes ==
    {[success |-> ok, isArray |-> TRUE, data |-> a] : ok \in BOOLEAN, a \in Arrays}
    \cup {[success |-> ok, isArray |-> FALSE, data |-> <<>>] : ok \in BOOLEAN}

\* The cache before the first invocation: what one earlier sync left.
InitialStores ==
    {commit(EmptyStore, stage(a, 0, EmptyStore)) : a \in {x \in Arrays : ~stageThrows(x)}}

\* What the awaited operations of an invocation have answered so far.
NoIo == [read |-> "none", fetch |-> "none", json |-> "none", success |-> FALSE,
         isArray |-> FALSE, commit |-> "none"]

\* ----------------------------------------------------------- the actions
Running(i) == pc[i] \notin {"idle", "done"}

Init ==
    /\ store \in InitialStores
    /\ data = <<>>
    /\ loading = FALSE
    /\ now = 0
    /\ pc = [i \in Inv |-> "idle"]
    /\ outcome = [i \in Inv |-> "none"]
    /\ args = [i \in Inv |-> <<Malformed, Malformed>>]
    /\ cachedData = [i \in Inv |-> <<>>]
    /\ items = [i \in Inv |-> <<>>]
    /\ batch = [i \in Inv |-> EmptyStore]
    /\ io = [i \in Inv |-> NoIo]
    /\ calls = [i \in Inv |-> 0]
    /\ commits = [i \in Inv |-> 0]
    /\ published = [i \in Inv |-> <<>>]
    /\ pre = [i \in Inv |-> <<>>]
    /\ disturbed = [i \in Inv |-> FALSE]
    /\ idsAfter = [i \in Inv |-> {}]
    /\ rejected = [i \in Inv |-> FALSE]
    /\ prior = [i \in Inv |-> {}]
    /\ lastCommit = 0

\* setData(v) by invocation i.
setData(i, v) ==
    /\ data' = v
    /\ published' = [published EXCEPT ![i] = Append(@, v)]
    /\ disturbed' = [j \in Inv |-> IF j # i /\ pc[j] # "idle" THEN TRUE ELSE disturbed[j]]

noSetData == UNCHANGED <<data, published, disturbed>>

\* Mutant of finish: no finally block; only the cache hit clears the flag
\* (line 50).
finishWithoutFinally(i, how) ==
    /\ pc' = [pc EXCEPT ![i] = "done"]
    /\ outcome' = [outcome EXCEPT ![i] = how]
    /\ loading' = IF how = "cached" THEN FALSE ELSE loading
    /\ UNCHANGED rejected

\* The invocation ends: by `return`, by falling off the end, or through
\* catch, which logs and swallows the error; finally runs setLoading(false)
\* (lines 91-95; line 50 on the cache hit).
finish(i, how) ==
    /\ pc' = [pc EXCEPT ![i] = "done"]
    /\ outcome' = [outcome EXCEPT ![i] = how]
    /\ loading' = FALSE
    /\ UNCHANGED rejected

\* Mutant of Start: the dates are validated only after the cache read was
\* issued; a malformed date is replaced by day 0 for the query.
StartReadsFirst(i, fromDate, toDate) ==
    /\ pc[i] = "idle"
    /\ \A j \in Inv : j < i => pc[j] # "idle"
    /\ args' = [args EXCEPT ![i] =
                    <<IF fromDate = Malformed THEN <<0>> ELSE fromDate,
                      IF toDate = Malformed THEN <<0>> ELSE toDate>>]
    /\ pre' = [pre EXCEPT ![i] = data]
    /\ now' = now + 1
    /\ prior' = [prior EXCEPT ![i] = {j \in Inv : pc[j] = "done"}]
    /\ pc' = [pc EXCEPT ![i] = "getDocs"]
    /\ loading' = TRUE
    /\ outcome' = [outcome EXCEPT ![i] =
                    IF fromDate = Malformed \/ toDate = Malformed
                    THEN "parseError" ELSE @]
    /\ UNCHANGED rejected
    /\ noSetData
    /\ UNCHANGED <<store, cachedData, items, batch, io, calls, commits, idsAfter, lastCommit>>

\* fetchAndSyncHistory(fromDate, toDate) up to its first await (lines 19-33).
\* Invocations are numbered in the order they start.
Start(i, fromDate, toDate) ==
    /\ pc[i] = "idle"
    /\ \A j \in Inv : j < i => pc[j] # "idle"
    /\ args' = [args EXCEPT ![i] = <<fromDate, toDate>>]
    /\ pre' = [pre EXCEPT ![i] = data]
    /\ now' = now + 1
    /\ prior' = [prior EXCEPT ![i] = {j \in Inv : pc[j] = "done"}]
    /\ LET fromD == startOfDay(parse(fromDate))
           toD == endOfDay(parse(toDate))
       IN  IF toISOStringThrows(fromD) \/ toISOStringThrows(toD)
           THEN finish(i, "parseError")
           ELSE /\ pc' = [pc EXCEPT ![i] = "getDocs"]
                /\ loading' = TRUE
                /\ UNCHANGED <<outcome, rejected>>
    /\ noSetData
    /\ UNCHANGED <<store, cachedData, items, batch, io, calls, commits, idsAfter, lastCommit>>

\* Mutant of GetDocsFails: a failed read is taken for a cache miss and the
\* flow goes on to the provider.
GetDocsFailsFallsThrough(i) ==
    /\ pc[i] = "getDocs"
    /\ io' = [io EXCEPT ![i].read = "failed"]
    /\ calls' = [calls EXCEPT ![i] = @ + 1]
    /\ pc' = [pc EXCEPT ![i] = "fetch"]
    /\ noSetData
    /\ UNCHANGED <<outcome, loading, rejected>>
    /\ UNCHANGED <<store, now, args, cachedData, items, batch, commits, pre, idsAfter,
                 prior, lastCommit>>

\* await getDocs(q) rejects (line 33): catch.
GetDocsFails(i) ==
    /\ pc[i] = "getDocs"
    /\ io' = [io EXCEPT ![i].read = "failed"]
    /\ finish(i, "readError")
    /\ noSetData
    /\ UNCHANGED <<store, now, args, cachedData, items, batch, calls, commits, pre, idsAfter,
                 prior, lastCommit>>

\* The records of a series that are within the threshold, in order.
RECURSIVE trusted(_)
trusted(series) ==
    IF series = <<>> THEN <<>>
    ELSE IF Head(series).buy > MAX_VALID_GOLD_PRICE \/ Head(series).sell > MAX_VALID_GOLD_PRICE
         THEN trusted(Tail(series))
         ELSE <<Head(series)>> \o trusted(Tail(series))

\* Mutant of GetDocs: a suspect series is invalidated record by record; the
\* records within the threshold are served while the refill is under way.
GetDocsServesTrusted(i) ==
    /\ pc[i] = "getDocs"
    /\ io' = [io EXCEPT ![i].read = "ok"]
    /\ LET fromD == startOfDay(parse(args[i][1]))
           toD == endOfDay(parse(args[i][2]))
           series == getDocs(store, fromD, toD)
       IN  /\ cachedData' = [cachedData EXCEPT ![i] = series]
           /\ IF cacheHit(series)
              THEN /\ setData(i, series)
                   /\ finish(i, "cached")
                   /\ UNCHANGED calls
              ELSE /\ calls' = [calls EXCEPT ![i] = @ + 1]
                   /\ pc' = [pc EXCEPT ![i] = "fetch"]
                   /\ IF trusted(series) # <<>>
                      THEN setData(i, trusted(series))
                      ELSE noSetData
                   /\ UNCHANGED <<outcome, loading, rejected>>
    /\ UNCHANGED <<store, now, args, items, batch, commits, pre, idsAfter,
                 prior, lastCommit>>

\* await getDocs(q) resolves (lines 33-58).
GetDocs(i) ==
    /\ pc[i] = "getDocs"
    /\ io' = [io EXCEPT ![i].read = "ok"]
    /\ LET fromD == startOfDay(parse(args[i][1]))
           toD == endOfDay(parse(args[i][2]))
           series == getDocs(store, fromD, toD)
       IN  /\ cachedData' = [cachedData EXCEPT ![i] = series]
           /\ IF cacheHit(series)
              THEN /\ setData(i, series)
                   /\ finish(i, "cached")
                   /\ UNCHANGED calls
              ELSE /\ calls' = [calls EXCEPT ![i] = @ + 1]
                   /\ pc' = [pc EXCEPT ![i] = "fetch"]
                   /\ noSetData
                   /\ UNCHANGED <<outcome, loading, rejected>>
    /\ UNCHANGED <<store, now, args, items, batch, commits, pre, idsAfter,
                 prior, lastCommit>>

\* Mutant of Fetch: a rejected fetch is tried once more.
FetchRetries(i, status) ==
    /\ pc[i] = "fetch"
    /\ io' = [io EXCEPT ![i].fetch = status]
    /\ IF status = "ok"
       THEN /\ pc' = [pc EXCEPT ![i] = "json"]
            /\ UNCHANGED <<outcome, loading, rejected, calls>>
       ELSE IF status = "rejected" /\ calls[i] = 1
            THEN /\ calls' = [calls EXCEPT ![i] = @ + 1]
                 /\ UNCHANGED <<pc, outcome, loading, rejected>>
            ELSE /\ finish(i, "fetchFailed")
                 /\ UNCHANGED calls
    /\ noSetData
    /\ UNCHANGED <<store, now, args, cachedData, items, batch, commits, pre, idsAfter,
                 prior, lastCommit>>

\* await fetch(...) settles (lines 58-61): it rejects (network error), or
\* resolves with res.ok false (throw, line 59), or with res.ok true.
Fetch(i, status) ==
    /\ pc[i] = "fetch"
    /\ io' = [io EXCEPT ![i].fetch = status]
    /\ IF status = "ok"
       THEN /\ pc' = [pc EXCEPT ![i] = "json"]
            /\ UNCHANGED <<outcome, loading, rejected>>
       ELSE finish(i, "fetchFailed")
    /\ noSetData
    /\ UNCHANGED <<store, now, args, cachedData, items, batch, calls, commits, pre, idsAfter,
                 prior, lastCommit>>

\* await res.json() rejects: the body is no JSON (line 61), catch.
JsonRejects(i) ==
    /\ pc[i] = "json"
    /\ io' = [io EXCEPT ![i].json = "invalid"]
    /\ finish(i, "jsonError")
    /\ noSetData
    /\ UNCHANGED <<store, now, args, cachedData, items, batch, calls, commits, pre, idsAfter,
                 prior, lastCommit>>

\* await res.json() resolves with a body (lines 61-87).
Json(i, json) ==
    /\ pc[i] = "json"
    /\ io' = [io EXCEPT ![i].json = "parsed", ![i].success = json.success,
                        ![i].isArray = json.isArray]
    /\ IF ~accepted(json)
       THEN \* return
            /\ finish(i, "badEnvelope")
            /\ noSetData
            /\ UNCHANGED <<items, batch, commits>>
       ELSE /\ items' = [items EXCEPT ![i] = json.data]
            /\ setData(i, json.data)
            /\ IF shouldSync(json.data)
               THEN /\ batch' = [batch EXCEPT ![i] = writeBatch(json.data)]
                    /\ IF stageThrows(json.data)
                       THEN \* forEach throws before batch.commit(): catch;
                            \* the writes staged so far are never committed
                            /\ finish(i, "stageError")
                            /\ UNCHANGED commits
                       ELSE /\ commits' = [commits EXCEPT ![i] = @ + 1]
                            /\ pc' = [pc EXCEPT ![i] = "commit"]
                            /\ UNCHANGED <<outcome, loading, rejected>>
               ELSE /\ finish(i, "emptyFresh")
                    /\ UNCHANGED <<batch, commits>>
    /\ UNCHANGED <<store, now, args, cachedData, calls, pre, idsAfter,
                 prior, lastCommit>>

\* await batch.commit() resolves (lines 87-88): the batch is applied whole.
CommitOk(i) ==
    /\ pc[i] = "commit"
    /\ io' = [io EXCEPT ![i].commit = "ok"]
    /\ store' = commit(store, batch[i])
    /\ idsAfter' = [idsAfter EXCEPT ![i] = DOMAIN store']
    /\ lastCommit' = i
    /\ finish(i, "written")
    /\ noSetData
    /\ UNCHANGED <<now, args, cachedData, items, batch, calls, commits, pre, prior>>

\* Mutant of CommitFails: the catch block takes the published series back.
CommitFailsRollsBack(i) ==
    /\ pc[i] = "commit"
    /\ io' = [io EXCEPT ![i].commit = "failed"]
    /\ finish(i, "writeFailed")
    /\ setData(i, pre[i])
    /\ UNCHANGED <<store, now, args, cachedData, items, batch, calls, commits, pre, idsAfter,
                 prior, lastCommit>>

\* Mutant of CommitFails: the failed batch leaves one of its documents behind.
CommitFailsPartly(i) ==
    /\ pc[i] = "commit"
    /\ io' = [io EXCEPT ![i].commit = "failed"]
    /\ LET id == CHOOSE x \in DOMAIN batch[i] : TRUE
       IN  store' = commit(store, [x \in {id} |-> batch[i][x]])
    /\ finish(i, "writeFailed")
    /\ noSetData
    /\ UNCHANGED <<now, args, cachedData, items, batch, calls, commits, pre, idsAfter,
                 prior, lastCommit>>

\* await batch.commit() rejects: nothing is written, catch.
CommitFails(i) ==
    /\ pc[i] = "commit"
    /\ io' = [io EXCEPT ![i].commit = "failed"]
    /\ finish(i, "writeFailed")
    /\ noSetData
    /\ UNCHANGED <<store, now, args, cachedData, items, batch, calls, commits, pre, idsAfter,
                 prior, lastCommit>>

Step(i) ==
    \/ \E f \in FromStrings, t \in DateStrings : Start(i, f, t)
    \/ GetDocsFails(i)
    \/ GetDocs(i)
    \/ \E status \in {"rejected", "notOk", "ok"} : Fetch(i, status)
    \/ JsonRejects(i)
    \/ \E json \in Envelopes : Json(i, json)
    \/ CommitOk(i)
    \/ CommitFails(i)

Next == \E i \in Inv : Step(i)

Spec == Init /\ [][Next]_vars

\* An awaited operation of invocation i settles (resolves or rejects).
Settle(i) ==
    \/ GetDocsFails(i)
    \/ GetDocs(i)
    \/ \E status \in {"rejected", "notOk", "ok"} : Fetch(i, status)
    \/ JsonRejects(i)
    \/ \E json \in Envelopes : Json(i, json)
    \/ CommitOk(i)
    \/ CommitFails(i)

\* The hook on a cache that holds nothing yet.
FreshInit == Init /\ store = EmptyStore

\* Every awaited I/O operation eventually returns or fails.
FairSpec == FreshInit /\ [][Next]_vars /\ \A i \in Inv : WF_vars(Settle(i))

\* ----------------------------------------------------------- the claims
\* The records of a series.
Records(series) == {series[k] : k \in 1..Len(series)}

\* Every record of the series is within the threshold.
WithinThreshold(series) ==
    \A r \in Records(series) :
        r.buy <= MAX_VALID_GOLD_PRICE /\ r.sell <= MAX_VALID_GOLD_PRICE

\* The series is in ascending date order.
Ascending(series) ==
    \A k \in 1..Len(series), l \in 1..Len(series) :
        k < l => IsoLe(series[k].date, series[l].date)

\* C1 (cache hit): an invocation whose cache read returned a non-empty series
\* with every buy and sell within MAX_VALID_GOLD_PRICE has published exactly
\* that series, once, in ascending date order, and has issued no provider
\* call.
C1_CacheHit ==
    \A i \in Inv :
        (io[i].read = "ok" /\ cachedData[i] # <<>> /\ WithinThreshold(cachedData[i]))
        => /\ published[i] = <<cachedData[i]>>
           /\ Ascending(cachedData[i])
           /\ calls[i] = 0
           /\ outcome[i] = "cached"
           /\ (~disturbed[i] => data = cachedData[i])

C1_Witness ==
    \E i \in Inv :
        /\ outcome[i] = "cached"
        /\ Len(cachedData[i]) = 2
        /\ cachedData[i][1].date # cachedData[i][2].date
        /\ data = cachedData[i]
        /\ calls[i] = 0

\* C2 (outlier veto): an invocation whose cache read returned a series with
\* a buy or a sell above MAX_VALID_GOLD_PRICE issues a provider call, does
\* not end as a cache hit, and never publishes a record of that cached
\* series.
C2_OutlierVeto ==
    \A i \in Inv :
        (io[i].read = "ok" /\ ~WithinThreshold(cachedData[i]))
        => /\ calls[i] = 1
           /\ outcome[i] # "cached"
           /\ \A n \in 1..Len(published[i]) :
                Records(published[i][n]) \cap Records(cachedData[i]) = {}

C2_Witness ==
    \E i \in Inv :
        /\ io[i].read = "ok"
        /\ \E r \in Records(cachedData[i]) : r.sell > MAX_VALID_GOLD_PRICE
        /\ \E r \in Records(cachedData[i]) :
              r.buy <= MAX_VALID_GOLD_PRICE /\ r.sell <= MAX_VALID_GOLD_PRICE
        /\ published[i] = <<items[i]>>
        /\ items[i] # <<>>
        /\ pc[i] = "done"

\* C3 (empty cache): an invocation whose cache read succeeded with no
\* document issues a provider call, does not end as a cache hit, and
\* publishes nothing but the array of its provider call.
C3_EmptyCache ==
    \A i \in Inv :
        (io[i].read = "ok" /\ cachedData[i] = <<>>)
        => /\ calls[i] = 1
           /\ outcome[i] # "cached"
           /\ (published[i] = <<>> \/ (io[i].json = "parsed" /\ published[i] = <<items[i]>>))

C3_Witness ==
    \E i \in Inv :
        /\ io[i].read = "ok"
        /\ cachedData[i] = <<>>
        /\ DOMAIN store # {}
        /\ calls[i] = 1
        /\ pc[i] = "fetch"

\* The provider call failed: a non-2xx status, a success flag that is false,
\* or data that is no array.
ProviderFailed(i) ==
    \/ io[i].fetch = "notOk"
    \/ io[i].json = "parsed" /\ (~io[i].success \/ ~io[i].isArray)

\* C4 (provider failure): an invocation whose provider call failed has
\* ended, has published nothing and has raised nothing to the caller; unless
\* another invocation published meanwhile, the result is the one it started
\* with.
C4_ProviderFailure ==
    \A i \in Inv :
        ProviderFailed(i)
        => /\ pc[i] = "done"
           /\ published[i] = <<>>
           /\ ~rejected[i]
           /\ (~disturbed[i] => data = pre[i])

C4_Witness ==
    \E i \in Inv :
        /\ io[i].json = "parsed"
        /\ ~io[i].success
        /\ io[i].isArray
        /\ pre[i] # <<>>
        /\ ~disturbed[i]
        /\ data = pre[i]

\* C5 (idempotent write): in every staged batch a document's identifier is
\* determined by its (type, date) alone, across invocations; and when two
\* invocations committed the same fresh series, with no other commit, their
\* batches name the same identifiers and the store holds the same
\* identifiers, as many documents, after the second commit as after the first.
C5_IdempotentWrite ==
    /\ \A i \in Inv, j \in Inv :
         \A a \in DOMAIN batch[i], b \in DOMAIN batch[j] :
            (batch[i][a].type = batch[j][b].type /\ batch[i][a].date = batch[j][b].date)
            => a = b
    /\ \A i \in Inv, j \in Inv :
         (/\ i # j
          /\ io[i].commit = "ok"
          /\ io[j].commit = "ok"
          /\ items[i] = items[j]
          /\ \A k \in Inv \ {i, j} : io[k].commit # "ok")
         => /\ DOMAIN batch[i] = DOMAIN batch[j]
            /\ idsAfter[i] = idsAfter[j]
            /\ Cardinality(idsAfter[i]) = Cardinality(idsAfter[j])
            /\ DOMAIN store = idsAfter[i]

C5_Witness ==
    \E i \in Inv, j \in Inv :
        /\ i # j
        /\ io[i].commit = "ok"
        /\ io[j].commit = "ok"
        /\ items[i] = items[j]
        /\ Cardinality(DOMAIN batch[i]) = 2
        /\ args[i] = args[j]
        /\ idsAfter[i] = idsAfter[j]

\* The provider call of invocation i succeeded with an array.
ProviderSucceeded(i) == io[i].json = "parsed" /\ io[i].success /\ io[i].isArray

\* C6 (busy flag release): if every awaited operation settles, an invocation
\* that has started reaches its terminal state, and the step that takes it
\* there leaves loading false, whatever the path.
C6_BusyFlagRelease ==
    /\ \A i \in Inv : (pc[i] # "idle") ~> (pc[i] = "done")
    /\ [][\A i \in Inv : (pc[i] # "done" /\ pc'[i] = "done") => ~loading']_vars

C6_Witness ==
    /\ \A i \in Inv : pc[i] = "done"
    /\ \E i \in Inv : outcome[i] = "writeFailed"
    /\ \E i \in Inv : outcome[i] = "fetchFailed"
    /\ ~loading

\* C7 (publish before write, no rollback): once the provider call succeeded
\* with a non-empty array, the fresh series is published, once, by the time
\* the batch commit is issued, and it is still the result while the commit
\* is pending and after it succeeded or failed, unless another invocation
\* published meanwhile.
C7_PublishBeforeWrite ==
    \A i \in Inv :
        (ProviderSucceeded(i) /\ items[i] # <<>>)
        => /\ published[i] = <<items[i]>>
           /\ (~disturbed[i] => data = items[i])
           /\ (commits[i] = 0 => pc[i] = "done" /\ io[i].commit = "none")
           /\ (commits[i] # 0 => pc[i] = "commit" \/ io[i].commit \in {"ok", "failed"})

C7_Witness ==
    \E i \in Inv :
        /\ ProviderSucceeded(i)
        /\ io[i].commit = "failed"
        /\ items[i] # <<>>
        /\ pre[i] # <<>>
        /\ pre[i] # items[i]
        /\ data = items[i]

\* C8 (busy indicator during operation): whenever an invocation has started
\* and has not ended, loading is true, also when two invocations overlap.
C8_BusyWhileRunning == \A i \in Inv : Running(i) => loading

\* C9 (empty fresh series): an invocation whose provider call succeeded with
\* an empty array has ended, has published the empty sequence (the result,
\* unless another invocation published meanwhile), has staged and issued no
\* batch commit, and has cleared the busy flag (loading is false once no
\* invocation runs).
C9_EmptyFreshSeries ==
    \A i \in Inv :
        (ProviderSucceeded(i) /\ items[i] = <<>>)
        => /\ pc[i] = "done"
           /\ published[i] = << <<>> >>
           /\ commits[i] = 0
           /\ batch[i] = EmptyStore
           /\ io[i].commit = "none"
           /\ (~disturbed[i] => data = <<>>)
           /\ ((\A j \in Inv : ~Running(j)) => ~loading)

C9_Witness ==
    \E i \in Inv :
        /\ ProviderSucceeded(i)
        /\ items[i] = <<>>
        /\ pre[i] # <<>>
        /\ data = <<>>
        /\ DOMAIN store # {}
        /\ ~loading

\* C10 (store frame): a step changes the store only when it is the step in
\* which an invocation's batch commit succeeds; every other step of an
\* invocation (a cache hit, a read error, a provider failure, an empty fresh
\* series, a failed commit) leaves every document as it was; and a batch
\* commit is issued, once, only after the invocation's own provider call
\* succeeded with a non-empty array.
C10_StoreFrame ==
    [][/\ store' # store =>
            \E i \in Inv : pc[i] = "commit" /\ io'[i].commit = "ok"
       /\ \A i \in Inv :
            (pc'[i] # pc[i] /\ io'[i].commit # "ok") => store' = store
       /\ \A i \in Inv :
            commits'[i] # 0 =>
                ProviderSucceeded(i)' /\ items'[i] # <<>> /\ commits'[i] = 1]_vars

C10_Witness ==
    \E i \in Inv :
        /\ io[i].commit = "failed"
        /\ Cardinality(DOMAIN batch[i]) = 2
        /\ DOMAIN batch[i] \cap DOMAIN store = {}

\* The quotation fields of a document.
Quotation(document) ==
    HistoryItem(document.date, document.type, document.buy, document.sell)

\* Invocations i and j overlapped in time: neither had ended when the other
\* started.
Concurrent(i, j) ==
    /\ i # j
    /\ pc[i] # "idle" /\ pc[j] # "idle"
    /\ i \notin prior[j] /\ j \notin prior[i]

\* C11 (concurrent convergence): when two concurrent invocations both missed
\* the cache and both committed, j last, the store holds the identifiers it
\* held after the first commit and those of the last batch, one document per
\* (type, date) identifier; every document of the last batch is in the store
\* as that batch wrote it, and a document only the first batch wrote is as
\* the first batch wrote it; and when both received the same array, the
\* identifiers are those left by the first commit and the quotation fields
\* are those of either batch, whichever committed last.
C11_ConcurrentConvergence ==
    \A i \in Inv, j \in Inv :
        (/\ Concurrent(i, j)
         /\ io[i].commit = "ok"
         /\ io[j].commit = "ok"
         /\ lastCommit = j
         /\ \A k \in Inv \ {i, j} : io[k].commit # "ok")
        => /\ calls[i] = 1 /\ calls[j] = 1
           /\ DOMAIN store = idsAfter[i] \cup DOMAIN batch[j]
           /\ DOMAIN batch[i] \subseteq DOMAIN store
           /\ \A id \in DOMAIN store : docId(store[id]) = id
           /\ \A id \in DOMAIN batch[j] : store[id] = batch[j][id]
           /\ \A id \in DOMAIN batch[i] \ DOMAIN batch[j] : store[id] = batch[i][id]
           /\ items[i] = items[j] =>
                /\ DOMAIN store = idsAfter[i]
                /\ idsAfter[j] = idsAfter[i]
                /\ \A id \in DOMAIN batch[i] :
                      Quotation(store[id]) = Quotation(batch[i][id])

C11_Witness ==
    \E i \in Inv, j \in Inv :
        /\ Concurrent(i, j)
        /\ io[i].commit = "ok"
        /\ io[j].commit = "ok"
        /\ lastCommit = j
        /\ i > j
        /\ items[i] = items[j]
        /\ Cardinality(DOMAIN batch[j]) = 2
        /\ cachedData[i] # <<>>
        /\ \E id \in DOMAIN batch[j] : batch[i][id].syncedAt # 0 /\ id \in DOMAIN store

\* C12 (single source per query): an invocation publishes at most once; what
\* it published is the whole series of its own cache read, and then it made
\* no provider call, or the whole array of its own provider call, and then
\* its cache read was a miss; nothing else, and never one after the other.
C12_SingleSource ==
    \A i \in Inv :
        /\ Len(published[i]) <= 1
        /\ published[i] # <<>> =>
             \/ /\ published[i][1] = cachedData[i]
                /\ io[i].read = "ok"
                /\ cacheHit(cachedData[i])
                /\ calls[i] = 0
                /\ io[i].json = "none"
             \/ /\ published[i][1] = items[i]
                /\ ProviderSucceeded(i)
                /\ ~cacheHit(cachedData[i])
                /\ calls[i] = 1

C12_Witness ==
    \E i \in Inv :
        /\ pc[i] = "done"
        /\ Len(cachedData[i]) = 2
        /\ hasOutliers(cachedData[i])
        /\ ~hasOutliers(Tail(cachedData[i]))
        /\ Len(items[i]) = 2
        /\ published[i] = <<items[i]>>
        /\ Records(items[i]) \cap {Quotation(r) : r \in Records(cachedData[i])} # {}

\* What holds of an invocation that was given a malformed date.
MalformedDateFails ==
    /\ \A i \in Inv :
         (pc[i] # "idle" /\ (args[i][1] = Malformed \/ args[i][2] = Malformed))
         => /\ pc[i] = "done"
            /\ outcome[i] = "parseError"
            /\ io[i] = NoIo
            /\ calls[i] = 0
            /\ commits[i] = 0
            /\ batch[i] = EmptyStore
            /\ published[i] = <<>>
            /\ ~rejected[i]
            /\ (~disturbed[i] => data = pre[i])
            /\ ((\A j \in Inv : ~Running(j)) => ~loading)
    /\ \A i \in Inv : outcome[i] = "parseError" =>
            (args[i][1] = Malformed \/ args[i][2] = Malformed)

\* C13 (malformed date input): an invocation whose fromDate or toDate does
\* not match dd/MM/yyyy has ended in the step that started it, with no cache
\* read, no provider call and no batch staged or committed, has published
\* nothing and raised nothing to the caller; the result is the one it
\* started with unless another invocation published since, and the step that
\* ends it leaves loading false.
C13_MalformedDate ==
    /\ []MalformedDateFails
    /\ [][\A i \in Inv :
            (pc[i] = "idle" /\ outcome'[i] = "parseError")
            => (pc'[i] = "done" /\ ~loading' /\ data' = data /\ store' = store)]_vars

C13_Witness ==
    \E i \in Inv :
        /\ outcome[i] = "parseError"
        /\ args[i][1] # Malformed
        /\ args[i][2] = Malformed
        /\ pre[i] # <<>>
        /\ data = pre[i]
        /\ DOMAIN store # {}
        /\ ~loading

\* What holds of an invocation whose cache read failed.
ReadErrorEnds ==
    \A i \in Inv :
        io[i].read = "failed"
        => /\ pc[i] = "done"
           /\ outcome[i] = "readError"
           /\ calls[i] = 0
           /\ io[i].fetch = "none" /\ io[i].json = "none" /\ io[i].commit = "none"
           /\ commits[i] = 0
           /\ batch[i] = EmptyStore
           /\ published[i] = <<>>
           /\ ~rejected[i]
           /\ (~disturbed[i] => data = pre[i])
           /\ ((\A j \in Inv : ~Running(j)) => ~loading)

\* C14 (read error): an invocation whose cache read failed has ended without
\* a provider call and without a batch staged or committed, has published
\* nothing and raised nothing to the caller; the result is the one it
\* started with unless another invocation published since; and the step in
\* which the read fails ends the invocation, leaves the result and the store
\* as they were and leaves loading false.
C14_ReadError ==
    /\ []ReadErrorEnds
    /\ [][\A i \in Inv :
            (io[i].read = "none" /\ io'[i].read = "failed")
            => /\ pc'[i] = "done"
               /\ ~loading'
               /\ data' = data
               /\ store' = store
               /\ calls'[i] = 0
               /\ ~rejected'[i]]_vars

C14_Witness ==
    \E i \in Inv :
        /\ outcome[i] = "readError"
        /\ io[i].read = "failed"
        /\ pre[i] # <<>>
        /\ data = pre[i]
        /\ DOMAIN store = {}
        /\ calls[i] = 0
        /\ ~loading

\* The place of a suspension point in the flow.
Rank(p) ==
    CASE p = "idle" -> 0
      [] p = "getDocs" -> 1
      [] p = "fetch" -> 2
      [] p = "json" -> 3
      [] p = "commit" -> 4
      [] p = "done" -> 5

\* Where an invocation stands, the steps before have returned.
StepsInOrder ==
    \A i \in Inv :
        /\ calls[i] <= 1
        /\ commits[i] <= 1
        /\ calls[i] = 1 => io[i].read = "ok"
        /\ io[i].fetch # "none" => calls[i] = 1
        /\ io[i].json # "none" => io[i].fetch = "ok"
        /\ commits[i] = 1 =>
             /\ io[i].json = "parsed"
             /\ published[i] = <<items[i]>>
        /\ io[i].commit # "none" => commits[i] = 1
        /\ pc[i] = "getDocs" => io[i] = NoIo
        /\ pc[i] = "fetch" => io[i].fetch = "none"
        /\ pc[i] = "commit" => io[i].commit = "none"

\* C15 (step ordering): in every invocation the cache read comes first; the
\* provider call is issued at most once, in the step in which the cache read
\* returns; the batch commit is issued at most once, in the step in which the
\* provider's body arrives and after the fresh series was published; an
\* invocation only moves forward through its suspension points and no
\* awaited operation settles twice.
C15_StepOrdering ==
    /\ []StepsInOrder
    /\ [][\A i \in Inv :
            /\ pc'[i] # pc[i] => Rank(pc'[i]) > Rank(pc[i])
            /\ (pc[i] = "idle" /\ pc'[i] \notin {"idle", "done"}) => pc'[i] = "getDocs"
            /\ calls'[i] # calls[i] =>
                 /\ calls[i] = 0 /\ calls'[i] = 1
                 /\ io[i].read = "none" /\ io'[i].read = "ok"
            /\ commits'[i] # commits[i] =>
                 /\ commits[i] = 0 /\ commits'[i] = 1
                 /\ io[i].fetch = "ok" /\ io[i].json = "none" /\ io'[i].json = "parsed"
                 /\ published'[i] = <<items'[i]>>
            /\ io[i].read # "none" => io'[i].read = io[i].read
            /\ io[i].fetch # "none" => io'[i].fetch = io[i].fetch
            /\ io[i].json # "none" => io'[i].json = io[i].json
            /\ io[i].commit # "none" => io'[i].commit = io[i].commit]_vars

C15_Witness ==
    \E i \in Inv :
        /\ outcome[i] = "written"
        /\ io[i].read = "ok"
        /\ hasOutliers(cachedData[i])
        /\ calls[i] = 1
        /\ commits[i] = 1
        /\ io[i].commit = "ok"
        /\ \E j \in Inv : Concurrent(i, j) /\ outcome[j] = "fetchFailed" /\ io[j].fetch = "rejected"

\* Invocation j is the next one after i for the same range: i missed the
\* cache, refilled and committed; j started after i had ended, with the same
\* arguments; its cache read has returned, and no other invocation wrote to
\* the store.
NextAfterRepair(i, j) ==
    /\ i # j
    /\ io[i].commit = "ok"
    /\ ~cacheHit(cachedData[i])
    /\ i \in prior[j]
    /\ args[j] = args[i]
    /\ io[j].read = "ok"
    /\ \A k \in Inv \ {i} : io[k].commit # "ok"

\* C16 (cache repair): the next invocation for the same range after one that
\* refilled and committed is served from the cache: it issues no provider
\* call and its cache read holds no record above the threshold.
C16_CacheRepair ==
    \A i \in Inv, j \in Inv :
        NextAfterRepair(i, j)
        => /\ calls[j] = 0
           /\ ~hasOutliers(cachedData[j])
           /\ outcome[j] = "cached"

\* C17 (result ordering under overlap): when two invocations that overlapped
\* in time have both published and every invocation has ended, the result is
\* the series of the one that started last.
C17_LastStartedWins ==
    \A i \in Inv, j \in Inv :
        (/\ i < j
         /\ Concurrent(i, j)
         /\ \A k \in Inv : pc[k] \in {"idle", "done"} /\ (pc[k] = "done" => k <= j)
         /\ published[i] # <<>>
         /\ published[j] # <<>>)
        => data = published[j][Len(published[j])]

=============================================================================
